---- MODULE Spec2Model ----
(***************************************************************************)
(* State-machine model of PythonTools/RexxFunctions.py: the stateful line  *)
(* reader linein with its cursor table _file_positions, and the file       *)
(* operations lineout and rm, over a small POSIX-like file system.         *)
(*                                                                         *)
(* Strings are sequences of one-character strings; "\n" is the newline.    *)
(* A path string is the sequence of its components; an absolute path       *)
(* starts with the component "/".                                          *)
(*                                                                         *)
(* Two objects are run side by side on the same calls: the one constructed *)
(* with verbose=TRUE and the one constructed with verbose=FALSE, each on   *)
(* its own copy of the same initial file system.  Every per-object         *)
(* variable is a function of the verbose switch.                           *)
(*                                                                         *)
(* Further specifications: reads of two files (SpecTwoFiles), two threads  *)
(* inside linein on one object (SpecThreads), the linein of               *)
(* RexxFunctions_old2.py side by side with this one (SpecOld2), and the    *)
(* static string functions substr, left and right on drawn arguments       *)
(* (SpecStrings).                                                          *)
(***************************************************************************)
EXTENDS Integers, Sequences, FiniteSets, TLC

(***************************************************************************)
(* Bounds of the model                                                     *)
(***************************************************************************)
\* longest file, in characters, that lineout may produce by appending
MaxFileLen == 4
\* largest explicit line number passed to linein
MaxLineNumber == 2
\* longest string passed to a string function
MaxStrLen == 2

(***************************************************************************)
(* Values                                                                  *)
(***************************************************************************)
NL == "\n"
\* a byte sequence that is not valid text in the default encoding
BAD == "0xFF"

\* RexxFunctions.FILE_NOT_FOUND = 0xEEEEEEEE, RexxFunctions.END_OF_FILE = 0xFFFFFFFF
\* (unsigned 32-bit values, kept as their hexadecimal numerals)
FILE_NOT_FOUND == [int |-> "0xEEEEEEEE"]
END_OF_FILE == [int |-> "0xFFFFFFFF"]
\* the return codes 0 and 1 of rm and lineout
RC0 == [int |-> "0"]
RC1 == [int |-> "1"]
\* a returned line
Str(s) == [str |-> s]

\* the optional argument line_number: None, or a given integer
None == {}
Some(k) == {k}
TheInt(opt) == CHOOSE k \in opt : TRUE

(***************************************************************************)
(* Text helpers                                                            *)
(***************************************************************************)
RECURSIVE rstrip(_, _)
\* str.rstrip(ch): drop every trailing occurrence of ch
rstrip(s, ch) ==
    IF s # << >> /\ s[Len(s)] = ch
    THEN rstrip(SubSeq(s, 1, Len(s) - 1), ch)
    ELSE s

\* position of the first newline of d, 0 when there is none
FirstNL(d) ==
    IF \E i \in 1..Len(d) : d[i] = NL
    THEN CHOOSE i \in 1..Len(d) : d[i] = NL /\ \A j \in 1..(i - 1) : d[j] # NL
    ELSE 0

RECURSIVE FileLines(_)
\* the lines a text file object yields when iterated: each line keeps its
\* terminating newline, the last one may have none
FileLines(d) ==
    IF d = << >> THEN << >>
    ELSE LET i == FirstNL(d) IN
         IF i = 0 THEN << d >>
         ELSE << SubSeq(d, 1, i) >> \o FileLines(SubSeq(d, i + 1, Len(d)))

\* reading the file raises UnicodeDecodeError (the whole of a small file is
\* decoded before the first line is yielded)
Undecodable(d) == \E i \in 1..Len(d) : d[i] = BAD

RECURSIVE Scan_from_zero(_, _, _)
\* variant of Scan: the lines are counted from 0, as by enumerate(file)
Scan_from_zero(lines, current_line, target_line) ==
    IF current_line > Len(lines) THEN 0
    ELSE IF current_line - 1 = target_line THEN current_line
    ELSE Scan_from_zero(lines, current_line + 1, target_line)

RECURSIVE Scan(_, _, _)
\* for current_line, content in enumerate(file, 1):
\*     if current_line == target_line: ...
\* the number of the line at which the loop stops, 0 when it runs off the end
Scan(lines, current_line, target_line) ==
    IF current_line > Len(lines) THEN 0
    ELSE IF current_line = target_line THEN current_line
    ELSE Scan(lines, current_line + 1, target_line)

(***************************************************************************)
(* Paths and the file system                                               *)
(***************************************************************************)
Root == << "/" >>
\* os.getcwd()
Cwd == << "/", "w" >>

\* Path(file_path): the parsed path drops "." components, keeps ".."
PathOf(file_path) == SelectSeq(file_path, LAMBDA c : c # ".")

IsAbsolute(p) == p # << >> /\ p[1] = "/"

\* Path.absolute(): prefix the working directory, no normalisation and no
\* symbolic-link resolution
absolute(p) == IF IsAbsolute(p) THEN p ELSE Cwd \o p

Parent(id) == IF Len(id) <= 1 THEN Root ELSE SubSeq(id, 1, Len(id) - 1)

RECURSIVE Walk(_, _, _, _)
\* the kernel's path walk from directory cur along the components rest.
\* files: the regular files, dirs: the directories with their w and x bits
Walk(files, dirs, cur, rest) ==
    IF rest = << >> THEN [err |-> "OK", id |-> cur]
    ELSE IF cur \notin DOMAIN dirs
         THEN [err |-> IF cur \in DOMAIN files THEN "ENOTDIR" ELSE "ENOENT", id |-> cur]
    ELSE IF ~dirs[cur].x THEN [err |-> "EACCES", id |-> cur]
    ELSE Walk(files, dirs,
              IF Head(rest) = ".." THEN Parent(cur)
              ELSE IF Head(rest) = "." THEN cur
              ELSE Append(cur, Head(rest)),
              Tail(rest))

\* the file identity an absolute path leads to
Resolve(files, dirs, abspath) == Walk(files, dirs, Root, Tail(abspath))

\* os.stat(path): "file", "dir", or the errno of the failure
Stat(files, dirs, abspath) ==
    LET r == Resolve(files, dirs, abspath) IN
    IF r.err # "OK" THEN r.err
    ELSE IF r.id \in DOMAIN dirs THEN "dir"
    ELSE IF r.id \in DOMAIN files THEN "file"
    ELSE "ENOENT"

\* Path.exists(): TRUE, FALSE, or "raise" when stat fails with an errno that
\* pathlib does not ignore.  Up to Python 3.12 EACCES is re-raised as
\* PermissionError; later versions answer FALSE.  py_raises picks the runtime.
exists(files, dirs, abspath, py_raises) ==
    LET st == Stat(files, dirs, abspath) IN
    IF st \in {"file", "dir"} THEN "True"
    ELSE IF st = "EACCES" /\ py_raises THEN "raise"
    ELSE "False"

\* Path.is_file()
is_file(files, dirs, abspath) == Stat(files, dirs, abspath) = "file"

\* adding or replacing one entry of a dictionary
Put(f, k, v) == [x \in DOMAIN f \cup {k} |-> IF x = k THEN v ELSE f[x]]
\* removing one entry
Del(f, k) == [x \in DOMAIN f \ {k} |-> f[x]]

\* the permission bits of a regular file are a subset of {"r", "w"}
CanRead(mode) == "r" \in mode
CanWrite(mode) == "w" \in mode

(***************************************************************************)
(* Outcomes of a call.  W is the object and its world before the call:     *)
(* pos = self._file_positions, nr = self.next_record, files = the regular  *)
(* files.  how is "return", "exit" (sys.exit) or "raise" (an exception     *)
(* reaches the caller); msg is the diagnostic text printed, if any.        *)
(***************************************************************************)
NoMsg == << >>
Msg(verbose, stream, text) == IF verbose THEN << stream, text >> ELSE NoMsg

Returns(W, v, msg) ==
    [pos |-> W.pos, nr |-> W.nr, files |-> W.files, how |-> "return", val |-> v, msg |-> msg]
\* sys.exit(code): SystemExit is not an Exception, no handler of the class catches it
Exits(W, code, msg) ==
    [pos |-> W.pos, nr |-> W.nr, files |-> W.files, how |-> "exit", val |-> code, msg |-> msg]
Raises(W, exc) ==
    [pos |-> W.pos, nr |-> W.nr, files |-> W.files, how |-> "raise", val |-> [exc |-> exc], msg |-> NoMsg]

(***************************************************************************)
(* RexxFunctions.linein                                                    *)
(***************************************************************************)
\* self._file_positions = {}
EmptyTable == [x \in {} |-> 0]

\* variant of linein_not_exists: sys.exit(1) slipped under "if self.verbose:"
linein_not_exists_exit_under_verbose(W, exit_on_error, verbose) ==
    LET msg == Msg(verbose, "stderr", "File does not exist") IN
    IF verbose /\ exit_on_error THEN Exits(W, RC1, msg) ELSE Returns(W, FILE_NOT_FOUND, msg)

\* if not path.exists(): ...
linein_not_exists(W, exit_on_error, verbose) ==
    LET msg == Msg(verbose, "stderr", "File does not exist") IN
    IF exit_on_error THEN Exits(W, RC1, msg) ELSE Returns(W, FILE_NOT_FOUND, msg)

\* if not path.is_file(): ...
linein_not_file(W, exit_on_error, verbose) ==
    LET msg == Msg(verbose, "stderr", "Path is not a file") IN
    IF exit_on_error THEN Exits(W, RC1, msg) ELSE Returns(W, FILE_NOT_FOUND, msg)

\* except PermissionError: ...
linein_PermissionError(W, exit_on_error, verbose) ==
    LET msg == Msg(verbose, "stderr", "Permission denied") IN
    IF exit_on_error THEN Exits(W, RC1, msg) ELSE Returns(W, FILE_NOT_FOUND, msg)

\* except Exception as e: ...
linein_Exception(W, exit_on_error, verbose) ==
    LET msg == Msg(verbose, "stderr", "Error reading file") IN
    IF exit_on_error THEN Exits(W, RC1, msg) ELSE Returns(W, END_OF_FILE, msg)

\* variant of linein_init_key: the table keeps the cursor of one file only
linein_init_key_single(pos, file_key) ==
    IF file_key \in DOMAIN pos THEN pos ELSE Put(EmptyTable, file_key, 0)

\* if file_key not in self._file_positions: self._file_positions[file_key] = 0
linein_init_key(pos, file_key) ==
    IF file_key \in DOMAIN pos THEN pos ELSE Put(pos, file_key, 0)

\* variant of target_line: a sequential read always asks for the first line
target_line_first(pos, file_key, line_number) ==
    IF line_number = None THEN 1 ELSE TheInt(line_number)

\* target_line = (self._file_positions[file_key] + 1) if line_number is None else line_number
target_line(pos, file_key, line_number) ==
    IF line_number = None THEN pos[file_key] + 1 ELSE TheInt(line_number)

\* variant of linein_found: the cursor is advanced by one (+= 1), not set to
\* the number of the line found
linein_found_increments(W, file_key, line_number, current_line, content) ==
    Returns([W EXCEPT !.pos = Put(W.pos, file_key, W.pos[file_key] + 1), !.nr = current_line],
            Str(rstrip(content, NL)), NoMsg)

\* the body of "if current_line == target_line:"
linein_found(W, file_key, line_number, current_line, content) ==
    Returns([W EXCEPT !.pos = Put(W.pos, file_key, current_line), !.nr = current_line],
            Str(rstrip(content, NL)), NoMsg)

\* variant of linein_eof: the cursor is not reset at end of file
linein_eof_no_reset(W, exit_on_error, file_key, line_number, exit_on_eof) ==
    IF exit_on_eof /\ exit_on_error
    THEN Exits(W, RC0, NoMsg)
    ELSE Returns(W, END_OF_FILE, NoMsg)

\* variant of linein_eof: the cursor is reset at every end of file, also after
\* a positional read
linein_eof_always_resets(W, exit_on_error, file_key, line_number, exit_on_eof) ==
    LET W1 == [W EXCEPT !.pos = Put(W.pos, file_key, 0)]
    IN IF exit_on_eof /\ exit_on_error
       THEN Exits(W1, RC0, NoMsg)
       ELSE Returns(W1, END_OF_FILE, NoMsg)

\* EOF handling, after the loop
linein_eof(W, exit_on_error, file_key, line_number, exit_on_eof) ==
    LET W1 == IF line_number = None
              THEN [W EXCEPT !.pos = Put(W.pos, file_key, 0)]
              ELSE W
    IN IF exit_on_eof /\ exit_on_error
       THEN Exits(W1, RC0, NoMsg)
       ELSE Returns(W1, END_OF_FILE, NoMsg)

linein(W, dirs, exit_on_error, verbose, file_path, line_number, exit_on_eof, py_raises) ==
    LET path == absolute(PathOf(file_path))
        ex == exists(W.files, dirs, path, py_raises)
    IN
    IF ex = "raise" THEN linein_PermissionError(W, exit_on_error, verbose)
    ELSE IF ex = "False" THEN linein_not_exists(W, exit_on_error, verbose)
    ELSE IF ~is_file(W.files, dirs, path) THEN linein_not_file(W, exit_on_error, verbose)
    ELSE
      LET file_key == path
          W1 == [W EXCEPT !.pos = linein_init_key(W.pos, file_key)]
          target == target_line(W1.pos, file_key, line_number)
          f == W.files[Resolve(W.files, dirs, path).id]
      IN
      \* with open(path, 'r') as file:
      IF ~CanRead(f.mode) THEN linein_PermissionError(W1, exit_on_error, verbose)
      ELSE IF Undecodable(f.data) THEN linein_Exception(W1, exit_on_error, verbose)
      ELSE
        LET lines == FileLines(f.data)
            current_line == Scan(lines, 1, target)
        IN IF current_line # 0
           THEN linein_found(W1, file_key, line_number, current_line, lines[current_line])
           ELSE linein_eof(W1, exit_on_error, file_key, line_number, exit_on_eof)

(***************************************************************************)
(* RexxFunctions.rm                                                        *)
(***************************************************************************)
\* variant of rm_not_exists: a missing file ends the process as in linein
rm_not_exists_exits(W, exit_on_error, verbose) ==
    LET msg == Msg(verbose, "stderr", "File does not exist (not deleted)") IN
    IF exit_on_error THEN Exits(W, RC1, msg) ELSE Returns(W, FILE_NOT_FOUND, msg)

\* if not path.exists(): ... return self.FILE_NOT_FOUND
rm_not_exists(W, exit_on_error, verbose) ==
    Returns(W, FILE_NOT_FOUND, Msg(verbose, "stderr", "File does not exist (not deleted)"))

\* except Exception as e: ...
rm_Exception(W, exit_on_error, verbose) ==
    LET msg == Msg(verbose, "stderr", "Error deleting file") IN
    IF exit_on_error THEN Exits(W, RC1, msg) ELSE Returns(W, RC1, msg)

\* path.unlink(): needs write permission on the directory, fails on a directory
unlink_ok(files, dirs, id) ==
    id \in DOMAIN files /\ dirs[Parent(id)].w

\* variant of rm: deleting a file also drops its entry of the cursor table
rm_forgets_cursor(W, dirs, exit_on_error, verbose, file_path, py_raises) ==
    LET path == absolute(PathOf(file_path))
        ex == exists(W.files, dirs, path, py_raises)
        id == Resolve(W.files, dirs, path).id
    IN
    IF ex = "raise" THEN Raises(W, "PermissionError")
    ELSE IF ex = "False" THEN rm_not_exists(W, exit_on_error, verbose)
    ELSE IF unlink_ok(W.files, dirs, id)
         THEN Returns([W EXCEPT !.files = Del(W.files, id), !.pos = Del(W.pos, path)], RC0,
                      Msg(verbose, "stdout", "File successfully deleted"))
         ELSE rm_Exception(W, exit_on_error, verbose)

rm(W, dirs, exit_on_error, verbose, file_path, py_raises) ==
    LET path == absolute(PathOf(file_path))
        ex == exists(W.files, dirs, path, py_raises)
        id == Resolve(W.files, dirs, path).id
    IN
    \* path.exists() is called outside the try block
    IF ex = "raise" THEN Raises(W, "PermissionError")
    ELSE IF ex = "False" THEN rm_not_exists(W, exit_on_error, verbose)
    ELSE IF unlink_ok(W.files, dirs, id)
         THEN Returns([W EXCEPT !.files = Del(W.files, id)], RC0,
                      Msg(verbose, "stdout", "File successfully deleted"))
         ELSE rm_Exception(W, exit_on_error, verbose)

(***************************************************************************)
(* RexxFunctions.lineout                                                   *)
(***************************************************************************)
\* variant of lineout_Exception: the failure code is returned without sys.exit(1)
lineout_Exception_no_exit(W, exit_on_error, verbose) ==
    Returns(W, RC1, Msg(verbose, "stderr", "Error writing to file"))

\* except Exception as e: ...
lineout_Exception(W, exit_on_error, verbose) ==
    LET msg == Msg(verbose, "stderr", "Error writing to file") IN
    IF exit_on_error THEN Exits(W, RC1, msg) ELSE Returns(W, RC1, msg)

\* open(file_path, 'a' if append else 'w') succeeds
open_for_write_ok(files, dirs, r) ==
    /\ r.err = "OK"
    /\ r.id \notin DOMAIN dirs
    /\ IF r.id \in DOMAIN files
       THEN CanWrite(files[r.id].mode)
       ELSE Parent(r.id) \in DOMAIN dirs /\ dirs[Parent(r.id)].w

\* variant of written: the file is opened in append mode whatever append is
written_never_truncates(files, id, string, append) ==
    IF id \in DOMAIN files
    THEN [files[id] EXCEPT !.data = @ \o string \o << NL >>]
    ELSE [data |-> string \o << NL >>, mode |-> {"r", "w"}]

\* the contents after open(..., mode) and file.write(string + '\n')
written(files, id, string, append) ==
    IF id \in DOMAIN files
    THEN [files[id] EXCEPT !.data = (IF append THEN @ ELSE << >>) \o string \o << NL >>]
    ELSE [data |-> string \o << NL >>, mode |-> {"r", "w"}]

lineout(W, dirs, exit_on_error, verbose, file_path, string, append) ==
    LET r == Resolve(W.files, dirs, absolute(file_path)) IN
    IF open_for_write_ok(W.files, dirs, r)
    THEN Returns([W EXCEPT !.files = Put(W.files, r.id, written(W.files, r.id, string, append))],
                 RC0, NoMsg)
    ELSE lineout_Exception(W, exit_on_error, verbose)

(***************************************************************************)
(* RexxFunctions.linein of RexxFunctions_old2.py (linein.py holds the same *)
(* function).  O is the object before the call: pos = self._file_positions, *)
(* keyed by the path string as given.                                      *)
(***************************************************************************)
Old2(pos, how, v) == [pos |-> pos, how |-> how, val |-> v]

\* variant of old2_eof: the cursor stays where the increment left it
old2_eof_no_reset(pos, path, line_number) == pos

\* if line_number is None: self._file_positions[path] = 0
old2_eof(pos, path, line_number) ==
    IF line_number = None THEN Put(pos, path, 0) ELSE pos

linein_old2(O, files, dirs, file_path, line_number) ==
    LET path == file_path
        \* if path not in self._file_positions: self._file_positions[path] = 0
        pos0 == IF path \in DOMAIN O.pos THEN O.pos ELSE Put(O.pos, path, 0)
    IN
    IF line_number # None /\ TheInt(line_number) < 1
    THEN Old2(pos0, "raise", [exc |-> "ValueError"])
    ELSE
      LET \* self._file_positions[path] += 1, before the file is opened
          pos1 == IF line_number = None THEN Put(pos0, path, pos0[path] + 1) ELSE pos0
          read_line == IF line_number = None THEN pos1[path] ELSE TheInt(line_number)
          st == Stat(files, dirs, absolute(file_path))
      IN
      \* except FileNotFoundError
      IF st = "ENOENT" THEN Old2(pos1, "return", FILE_NOT_FOUND)
      \* except IOError: IsADirectoryError, NotADirectoryError, PermissionError
      ELSE IF st # "file" THEN Old2(pos1, "return", END_OF_FILE)
      ELSE
        LET f == files[Resolve(files, dirs, absolute(file_path)).id] IN
        IF ~CanRead(f.mode) THEN Old2(pos1, "return", END_OF_FILE)
        \* UnicodeDecodeError is a ValueError: no handler catches it
        ELSE IF Undecodable(f.data) THEN Old2(pos1, "raise", [exc |-> "UnicodeDecodeError"])
        ELSE
          LET lines == FileLines(f.data)
              i == Scan(lines, 1, read_line)
          IN IF i # 0
             THEN Old2(pos1, "return", Str(rstrip(lines[i], NL)))
             ELSE Old2(old2_eof(pos1, path, line_number), "return", END_OF_FILE)

(***************************************************************************)
(* The string functions substr, left and right (static methods)            *)
(***************************************************************************)
Min(a, b) == IF a <= b THEN a ELSE b
Max(a, b) == IF a >= b THEN a ELSE b

\* the position a slice bound i stands for in a string of n characters: a
\* negative bound counts from the end, every bound is clamped to 0..n
SliceIndex(n, i) == IF i < 0 THEN Max(n + i, 0) ELSE Min(i, n)

\* string[lo:hi]
Slice(string, lo, hi) ==
    LET a == SliceIndex(Len(string), lo)
        b == SliceIndex(Len(string), hi)
    IN [i \in 1..(b - a) |-> string[a + i]]

\* string[lo:]
SliceFrom(string, lo) == Slice(string, lo, Len(string))

\* str.ljust(width, fillchar) and str.rjust(width, fillchar)
ljust(string, width, fillchar) ==
    string \o [i \in 1..(width - Len(string)) |-> fillchar]
rjust(string, width, fillchar) ==
    [i \in 1..(width - Len(string)) |-> fillchar] \o string

\* the outcome of a string function: a value returned or an exception raised
Gives(s) == [how |-> "return", val |-> Str(s)]
Throws(exc) == [how |-> "raise", val |-> [exc |-> exc]]

\* "if length:" is false for None and for 0
Truthy(length) == length # None /\ TheInt(length) # 0

substr(string, start, length) ==
    IF start < 1 THEN Throws("ValueError")
    ELSE IF Truthy(length)
         THEN Gives(Slice(string, start - 1, start - 1 + TheInt(length)))
         ELSE Gives(SliceFrom(string, start - 1))

left(string, length, pad) ==
    IF Len(string) >= length
    THEN Gives(Slice(string, 0, length))
    ELSE Gives(ljust(string, length, pad))

right(string, length, pad) ==
    IF Len(string) >= length
    THEN Gives(SliceFrom(string, 0 - length))
    ELSE Gives(rjust(string, length, pad))

(***************************************************************************)
(* The state machine                                                       *)
(***************************************************************************)
VARIABLES
    exit_on_error,      \* self.exit_on_error, set by __init__
    dirs,               \* the directories of the file system with their w and x bits
    files,              \* files[verbose]: the regular files, by identity
    file_positions,     \* file_positions[verbose]: self._file_positions
    next_record,        \* next_record[verbose]: self.next_record
    call,               \* the last call made, with its arguments
    outcome,            \* outcome[verbose]: how the last call ended, its value, its diagnostic
    run,                \* run[verbose][key]: length of the current run of sequential reads
    threads,            \* threads[t]: where thread t is in its linein call, and its locals
    strop,              \* the string function applied last, its arguments and its result
    old2                \* the object of RexxFunctions_old2.py: its _file_positions, and
                        \* how its last linein call ended and with which value

vars == << exit_on_error, dirs, files, file_positions, next_record, call, outcome, run,
           threads, strop, old2 >>

EmptyMap == EmptyTable

\* the arguments of the calls
Paths == { << "f.txt" >>, << "sub", "..", "f.txt" >>, << "sub" >>,
           << "ro", "r.txt" >>, << "locked", "h.txt" >>, << "g.txt" >> }
Strings == { << "a" >>, << "b" >> }
LineNumbers == { None } \cup { Some(k) : k \in 0..MaxLineNumber }

\* the file systems the object may be constructed on.  The working directory
\* /w holds f.txt (or not), the file g.txt of two lines and three directories:
\* sub, ro (not writable) with the file r.txt without any permission, and
\* locked (no search permission)
FileF == Cwd \o << "f.txt" >>
FileR == Cwd \o << "ro", "r.txt" >>
FileG == Cwd \o << "g.txt" >>
InitData == { << >>, << "b", NL, "a" >>, << "a", NL, BAD >> }
FixedFile(x) ==
    IF x = FileR THEN [data |-> << "a", NL >>, mode |-> {}]
    ELSE [data |-> << "c", NL, "d", NL >>, mode |-> {"r", "w"}]
InitFiles == { [x \in { FileR, FileG } |-> FixedFile(x)] } \cup
             { [x \in { FileF, FileR, FileG } |->
                  IF x = FileF THEN [data |-> d, mode |-> {"r", "w"}]
                  ELSE FixedFile(x)] : d \in InitData }
InitDirs == { [x \in { Root, Cwd, Cwd \o << "sub" >>, Cwd \o << "ro" >>, Cwd \o << "locked" >> } |->
                 [w |-> x \notin { Root, Cwd \o << "ro" >> },
                  x |-> x # Cwd \o << "locked" >>]] }

\* the cursor-table key linein uses for a path
KeyOf(file_path) == absolute(PathOf(file_path))
Keys == { KeyOf(p) : p \in Paths }

NoCall == [op |-> "init", file_path |-> << >>, line_number |-> None,
           exit_on_eof |-> FALSE, string |-> << >>, append |-> FALSE]

\* the threads that call linein on the one object
Threads == { 1, 2 }
\* a thread outside linein; absent, target and current_line are the locals of
\* its call, how and val the outcome of its last call, lost tells that the
\* cursor it overwrote was no longer the one it had read
IdleThread == [pc |-> "idle", absent |-> FALSE, target |-> 0, current_line |-> 0,
               how |-> "none", val |-> RC0, lost |-> FALSE]

\* no string function applied
NoStrop == [fn |-> "none", string |-> << >>, start |-> 0, length |-> None, pad |-> " ",
            how |-> "none", val |-> RC0]

\* RexxFunctions_old2.__init__: self._file_positions = {}
NoOld2 == [pos |-> EmptyTable, how |-> "init", val |-> RC0]

\* __init__
Init ==
    /\ exit_on_error \in BOOLEAN
    /\ dirs \in InitDirs
    /\ \E F \in InitFiles : files = [verbose \in BOOLEAN |-> F]
    /\ file_positions = [verbose \in BOOLEAN |-> EmptyMap]
    /\ next_record = [verbose \in BOOLEAN |-> 0]
    /\ call = NoCall
    /\ outcome = [verbose \in BOOLEAN |-> [how |-> "init", val |-> RC0, msg |-> NoMsg]]
    /\ run = [verbose \in BOOLEAN |-> [k \in Keys |-> 0]]
    /\ threads = [t \in Threads |-> IdleThread]
    /\ strop = NoStrop
    /\ old2 = NoOld2

\* the process of the object is still running
Alive(verbose) == outcome[verbose].how # "exit"

World(verbose) ==
    [pos |-> file_positions[verbose], nr |-> next_record[verbose], files |-> files[verbose]]

\* the state after a call whose outcome is RT for the verbose object and RF
\* for the silent one
Effect(RT, RF) ==
    LET R(verbose) == IF verbose THEN RT ELSE RF IN
    /\ files' = [verbose \in BOOLEAN |-> R(verbose).files]
    /\ file_positions' = [verbose \in BOOLEAN |-> R(verbose).pos]
    /\ next_record' = [verbose \in BOOLEAN |-> R(verbose).nr]
    /\ outcome' = [verbose \in BOOLEAN |->
                     [how |-> R(verbose).how, val |-> R(verbose).val, msg |-> R(verbose).msg]]
    /\ UNCHANGED << exit_on_error, dirs, threads, strop >>

\* the path leads to a regular file that can be opened for reading and decoded
ReadableFile(F, file_path) ==
    /\ Stat(F, dirs, KeyOf(file_path)) = "file"
    /\ CanRead(F[Resolve(F, dirs, KeyOf(file_path)).id].mode)
    /\ ~Undecodable(F[Resolve(F, dirs, KeyOf(file_path)).id].data)

\* the number of lines of the file a key leads to, -1 when it is not a regular file
LinesAt(F, key) ==
    IF Stat(F, dirs, key) = "file"
    THEN Len(FileLines(F[Resolve(F, dirs, key).id].data))
    ELSE -1

\* bookkeeping of runs: a run on a key starts with a sequential read made at
\* cursor 0 (or no cursor) with exit_on_eof=False, grows with each further such
\* read, and ends with its read number N+1, with any other linein on the key
\* and with any lineout or rm on the file
RunAfterLinein(verbose, file_path, line_number, exit_on_eof) ==
    LET key == KeyOf(file_path)
        pos == file_positions[verbose]
        j == run[verbose][key]
        N == LinesAt(files[verbose], key)
    IN IF key \notin Keys THEN run[verbose]
       ELSE [run[verbose] EXCEPT ![key] =
               IF line_number # None \/ exit_on_eof \/ N < 0 THEN 0
               ELSE IF j >= 1 /\ j <= N THEN j + 1
               ELSE IF key \notin DOMAIN pos \/ pos[key] = 0 THEN 1
               ELSE 0]

SameFile(F, key1, key2) ==
    LET r1 == Resolve(F, dirs, key1)
        r2 == Resolve(F, dirs, key2)
    IN r1.err = "OK" /\ r2.err = "OK" /\ r1.id = r2.id

RunAfterWrite(verbose, file_path) ==
    [k \in Keys |-> IF SameFile(files[verbose], k, absolute(file_path))
                    THEN 0 ELSE run[verbose][k]]

\* the call obj.linein(file_path, line_number, exit_on_eof) on the two objects
LineinCall(file_path, line_number, exit_on_eof, py_raises) ==
    /\ \A verbose \in BOOLEAN : Alive(verbose)
    /\ LET R(verbose) == linein(World(verbose), dirs, exit_on_error, verbose,
                                file_path, line_number, exit_on_eof, py_raises)
           RT == R(TRUE)
           RF == R(FALSE)
       IN Effect(RT, RF)
    /\ call' = [op |-> "linein", file_path |-> file_path, line_number |-> line_number,
                exit_on_eof |-> exit_on_eof, string |-> << >>, append |-> FALSE]
    /\ run' = [verbose \in BOOLEAN |->
                 RunAfterLinein(verbose, file_path, line_number, exit_on_eof)]

\* obj.linein(file_path, line_number, exit_on_eof)
Linein(file_path, line_number, exit_on_eof, py_raises) ==
    /\ LineinCall(file_path, line_number, exit_on_eof, py_raises)
    /\ UNCHANGED old2

\* obj.lineout(file_path, string, append)
Lineout(file_path, string, append) ==
    /\ \A verbose \in BOOLEAN : Alive(verbose)
    /\ \A verbose \in BOOLEAN :
          LET r == Resolve(files[verbose], dirs, absolute(file_path)) IN
          (append /\ r.err = "OK" /\ r.id \in DOMAIN files[verbose])
             => Len(files[verbose][r.id].data) + Len(string) + 1 <= MaxFileLen
    /\ LET R(verbose) == lineout(World(verbose), dirs, exit_on_error, verbose,
                                 file_path, string, append)
           RT == R(TRUE)
           RF == R(FALSE)
       IN Effect(RT, RF)
    /\ call' = [op |-> "lineout", file_path |-> file_path, line_number |-> None,
                exit_on_eof |-> FALSE, string |-> string, append |-> append]
    /\ run' = [verbose \in BOOLEAN |-> RunAfterWrite(verbose, file_path)]
    /\ UNCHANGED old2

\* obj.rm(file_path)
Rm(file_path, py_raises) ==
    /\ \A verbose \in BOOLEAN : Alive(verbose)
    /\ LET R(verbose) == rm(World(verbose), dirs, exit_on_error, verbose,
                            file_path, py_raises)
           RT == R(TRUE)
           RF == R(FALSE)
       IN Effect(RT, RF)
    /\ call' = [op |-> "rm", file_path |-> file_path, line_number |-> None,
                exit_on_eof |-> FALSE, string |-> << >>, append |-> FALSE]
    /\ run' = [verbose \in BOOLEAN |-> RunAfterWrite(verbose, file_path)]
    /\ UNCHANGED old2

\* the answers of Path.exists() that some Python runtime gives for a path
Runtimes(file_path) ==
    IF \E verbose \in BOOLEAN : Stat(files[verbose], dirs, KeyOf(file_path)) = "EACCES"
    THEN BOOLEAN ELSE { TRUE }

\* the calls on the two path strings of the file f.txt, with every line number
CursorPaths == { << "f.txt" >>, << "sub", "..", "f.txt" >> }

NextCursor ==
    \/ \E p \in CursorPaths, n \in LineNumbers, e \in BOOLEAN :
          \E py \in Runtimes(p) : Linein(p, n, e, py)
    \/ \E p \in CursorPaths, s \in Strings, a \in BOOLEAN : Lineout(p, s, a)
    \/ \E p \in CursorPaths : \E py \in Runtimes(p) : Rm(p, py)

SpecCursor == Init /\ [][NextCursor]_vars

\* the calls on one path string per file or directory, reading sequentially or
\* the first line
ErrorPaths == Paths \ { << "sub", "..", "f.txt" >>, << "g.txt" >> }
ErrorLineNumbers == { None, Some(1) }

NextErrors ==
    \/ \E p \in ErrorPaths, n \in ErrorLineNumbers, e \in BOOLEAN :
          \E py \in Runtimes(p) : Linein(p, n, e, py)
    \/ \E p \in ErrorPaths, s \in Strings, a \in BOOLEAN : Lineout(p, s, a)
    \/ \E p \in ErrorPaths : \E py \in Runtimes(p) : Rm(p, py)

SpecErrors == Init /\ [][NextErrors]_vars

\* the reads, sequential and positional, of the two files f.txt and g.txt
TwoFilePaths == { << "f.txt" >>, << "g.txt" >> }

NextTwoFiles ==
    \E p \in TwoFilePaths, n \in LineNumbers, e \in BOOLEAN :
       \E py \in Runtimes(p) : Linein(p, n, e, py)

SpecTwoFiles == Init /\ [][NextTwoFiles]_vars

(***************************************************************************)
(* Two threads calling obj.linein("f.txt", exit_on_eof=False) on one object *)
(* (the silent one).  The interpreter may switch threads between any two   *)
(* statements of linein, so each thread takes the statements that touch    *)
(* self._file_positions one at a time.  sys.exit in a thread ends the      *)
(* thread only.                                                            *)
(***************************************************************************)
Shared == FALSE
ThreadPath == << "f.txt" >>
ThreadKey == KeyOf(ThreadPath)

\* the call of thread t ends with outcome R
ThreadEnds(t, R, lost) ==
    /\ threads' = [threads EXCEPT ![t] =
                     [@ EXCEPT !.pc = IF R.how = "exit" THEN "exited" ELSE "done",
                               !.how = R.how, !.val = R.val, !.lost = lost]]
    /\ file_positions' = [file_positions EXCEPT ![Shared] = R.pos]
    /\ next_record' = [next_record EXCEPT ![Shared] = R.nr]
    /\ UNCHANGED << exit_on_error, dirs, files, call, outcome, run, strop, old2 >>

\* thread t moves to statement pc with its locals changed to loc
ThreadSteps(t, loc) ==
    /\ threads' = [threads EXCEPT ![t] = loc]
    /\ UNCHANGED << exit_on_error, dirs, files, file_positions, next_record,
                    call, outcome, run, strop, old2 >>

\* lines 29-48: the checks of the path, and "if file_key not in self._file_positions"
Begin(t) ==
    /\ threads[t].pc \in { "idle", "done" }
    /\ LET W == World(Shared)
           ex == exists(W.files, dirs, ThreadKey, TRUE)
       IN IF ex = "raise" THEN ThreadEnds(t, linein_PermissionError(W, exit_on_error, Shared), FALSE)
          ELSE IF ex = "False" THEN ThreadEnds(t, linein_not_exists(W, exit_on_error, Shared), FALSE)
          ELSE IF ~is_file(W.files, dirs, ThreadKey)
               THEN ThreadEnds(t, linein_not_file(W, exit_on_error, Shared), FALSE)
          ELSE ThreadSteps(t, [IdleThread EXCEPT
                                 !.absent = ThreadKey \notin DOMAIN W.pos,
                                 !.pc = IF ThreadKey \notin DOMAIN W.pos THEN "setkey" ELSE "target"])

\* line 49: self._file_positions[file_key] = 0
SetKey(t) ==
    /\ threads[t].pc = "setkey"
    /\ threads' = [threads EXCEPT ![t].pc = "target"]
    /\ file_positions' = [file_positions EXCEPT ![Shared] = Put(@, ThreadKey, 0)]
    /\ UNCHANGED << exit_on_error, dirs, files, next_record, call, outcome, run, strop,
                    old2 >>

\* line 51: target_line = self._file_positions[file_key] + 1
ReadCursor(t) ==
    /\ threads[t].pc = "target"
    /\ ThreadSteps(t, [threads[t] EXCEPT
                         !.target = target_line(file_positions[Shared], ThreadKey, None),
                         !.pc = "scan"])

\* lines 53-55: open the file and run the loop up to the target line
ScanFile(t) ==
    /\ threads[t].pc = "scan"
    /\ LET W == World(Shared)
           f == W.files[Resolve(W.files, dirs, ThreadKey).id]
       IN IF ~CanRead(f.mode)
          THEN ThreadEnds(t, linein_PermissionError(W, exit_on_error, Shared), FALSE)
          ELSE IF Undecodable(f.data)
          THEN ThreadEnds(t, linein_Exception(W, exit_on_error, Shared), FALSE)
          ELSE LET current_line == Scan(FileLines(f.data), 1, threads[t].target)
               IN ThreadSteps(t, [threads[t] EXCEPT
                                    !.current_line = current_line,
                                    !.pc = IF current_line # 0 THEN "found" ELSE "eof"])

\* lines 56-58: set the cursor and next_record, return the line
WriteCursor(t) ==
    /\ threads[t].pc = "found"
    /\ LET W == World(Shared)
           content == FileLines(W.files[Resolve(W.files, dirs, ThreadKey).id].data)[threads[t].current_line]
       IN ThreadEnds(t, linein_found(W, ThreadKey, None, threads[t].current_line, content),
                     W.pos[ThreadKey] # threads[t].target - 1)

\* lines 60-65: reset the cursor, return END_OF_FILE
ResetCursor(t) ==
    /\ threads[t].pc = "eof"
    /\ LET W == World(Shared)
       IN ThreadEnds(t, linein_eof(W, exit_on_error, ThreadKey, None, FALSE),
                     W.pos[ThreadKey] # threads[t].target - 1)

NextThreads ==
    \E t \in Threads :
       \/ Begin(t)
       \/ SetKey(t)
       \/ ReadCursor(t)
       \/ ScanFile(t)
       \/ WriteCursor(t)
       \/ ResetCursor(t)

SpecThreads == Init /\ [][NextThreads]_vars

(***************************************************************************)
(* The object of RexxFunctions_old2.py run side by side with the objects   *)
(* of RexxFunctions.py (both termination switches off) on sequential reads *)
(* of f.txt and g.txt, each under one path string.  The files exist and    *)
(* can be read throughout; lineout may rewrite them between the reads.     *)
(***************************************************************************)
Old2Paths == { << "f.txt" >>, << "g.txt" >> }

InitOld2 ==
    /\ Init
    /\ ~exit_on_error
    /\ \A verbose \in BOOLEAN : \A p \in Old2Paths : ReadableFile(files[verbose], p)

\* obj.linein(file_path, exit_on_eof=False) and old.linein(file_path)
LineinBoth(file_path) ==
    /\ LineinCall(file_path, None, FALSE, TRUE)
    /\ LET O == linein_old2(old2, files[Shared], dirs, file_path, None)
       IN old2' = O

NextOld2 ==
    \/ \E p \in Old2Paths : LineinBoth(p)
    \/ \E p \in Old2Paths, s \in Strings, a \in BOOLEAN : Lineout(p, s, a)

SpecOld2 == InitOld2 /\ [][NextOld2]_vars

(***************************************************************************)
(* The string functions applied to arguments drawn at the start            *)
(***************************************************************************)
Chars == { "a", "b" }
StringArgs == UNION { [1..n -> Chars] : n \in 0..MaxStrLen }
StartArgs == 0..(MaxStrLen + 1)
LengthArgs == { None } \cup { Some(k) : k \in 0..(MaxStrLen + 1) }
PadArgs == { " ", "*" }

InitStrings ==
    /\ exit_on_error = TRUE
    /\ dirs \in InitDirs
    /\ files = [verbose \in BOOLEAN |-> EmptyTable]
    /\ file_positions = [verbose \in BOOLEAN |-> EmptyTable]
    /\ next_record = [verbose \in BOOLEAN |-> 0]
    /\ call = NoCall
    /\ outcome = [verbose \in BOOLEAN |-> [how |-> "init", val |-> RC0, msg |-> NoMsg]]
    /\ run = [verbose \in BOOLEAN |-> [k \in Keys |-> 0]]
    /\ threads = [t \in Threads |-> IdleThread]
    /\ old2 = NoOld2
    /\ \E s \in StringArgs, st \in StartArgs, n \in LengthArgs, p \in PadArgs :
          strop = [NoStrop EXCEPT !.string = s, !.start = st, !.length = n, !.pad = p]

\* the string function fn has been applied to the arguments and gave R
Applied(fn, R) ==
    /\ strop' = [strop EXCEPT !.fn = fn, !.how = R.how, !.val = R.val]
    /\ UNCHANGED << exit_on_error, dirs, files, file_positions, next_record,
                    call, outcome, run, threads, old2 >>

\* RexxFunctions.substr(string, start, length)
Substr ==
    /\ strop.start \in Int
    /\ Applied("substr", substr(strop.string, strop.start, strop.length))

\* RexxFunctions.left(string, length, pad)
Left ==
    /\ strop.length # None
    /\ Applied("left", left(strop.string, TheInt(strop.length), strop.pad))

\* RexxFunctions.right(string, length, pad)
Right ==
    /\ strop.length # None
    /\ Applied("right", right(strop.string, TheInt(strop.length), strop.pad))

NextStrings == Substr \/ Left \/ Right

SpecStrings == InitStrings /\ [][NextStrings]_vars

TypeOK ==
    /\ exit_on_error \in BOOLEAN
    /\ \A verbose \in BOOLEAN :
          /\ DOMAIN file_positions[verbose] \subseteq Keys
          /\ \A k \in DOMAIN file_positions[verbose] : file_positions[verbose][k] \in Nat
          /\ outcome[verbose].how \in {"init", "return", "exit", "raise"}

(***************************************************************************)
(* Vocabulary of the properties                                            *)
(***************************************************************************)
\* the cursor of a key: the table's value, 0 when the key has no entry
CursorValue(pos, key) == IF key \in DOMAIN pos THEN pos[key] ELSE 0

\* the text of a file as lines, defined from the positions of its newlines
NewlinesOf(d) == { i \in 1..Len(d) : d[i] = NL }
NumLines(d) ==
    Cardinality(NewlinesOf(d)) + (IF d # << >> /\ d[Len(d)] # NL THEN 1 ELSE 0)
NthNewline(d, n) ==
    CHOOSE i \in NewlinesOf(d) : Cardinality({ x \in NewlinesOf(d) : x <= i }) = n
LineOf(d, j) ==
    LET first == IF j = 1 THEN 1 ELSE NthNewline(d, j - 1) + 1
        last == IF j <= Cardinality(NewlinesOf(d)) THEN NthNewline(d, j) - 1 ELSE Len(d)
    IN SubSeq(d, first, last)

DataAt(F, file_path) == F[Resolve(F, dirs, KeyOf(file_path)).id].data

IsLinein == call.op = "linein"
IsSequential == IsLinein /\ call.line_number = None
IsPositional == IsLinein /\ call.line_number # None
ReturnedValue(verbose, v) == outcome[verbose].how = "return" /\ outcome[verbose].val = v
Exited(verbose, code) == outcome[verbose].how = "exit" /\ outcome[verbose].val = code

(***************************************************************************)
(* C1                                                                      *)
(***************************************************************************)
\* C1: on a readable text file of N lines that is not modified meanwhile, the
\* j-th read of a run of sequential reads linein(path, exit_on_eof=False)
\* started at cursor 0 (or without a cursor) returns line j for j <= N; read
\* number N+1 returns END_OF_FILE and leaves the cursor at 0, so that the next
\* read starts a new run, whose read number 1 returns line 1 again.
C1_SequentialPass ==
    \A verbose \in BOOLEAN :
       (/\ IsSequential
        /\ ~call.exit_on_eof
        /\ run[verbose][KeyOf(call.file_path)] >= 1
        /\ ReadableFile(files[verbose], call.file_path))
       => LET key == KeyOf(call.file_path)
              d == DataAt(files[verbose], call.file_path)
              N == NumLines(d)
              j == run[verbose][key]
          IN /\ j <= N + 1
             /\ j <= N => ReturnedValue(verbose, Str(LineOf(d, j)))
             /\ j = N + 1 => /\ ReturnedValue(verbose, END_OF_FILE)
                             /\ key \in DOMAIN file_positions[verbose]
                             /\ file_positions[verbose][key] = 0

\* a pass over a file of two lines has just ended: its third read returned END_OF_FILE
C1_Witness ==
    /\ IsSequential
    /\ ~call.exit_on_eof
    /\ ReadableFile(files[TRUE], call.file_path)
    /\ NumLines(DataAt(files[TRUE], call.file_path)) = 2
    /\ run[TRUE][KeyOf(call.file_path)] = 3
    /\ ReturnedValue(TRUE, END_OF_FILE)

(***************************************************************************)
(* C2                                                                      *)
(***************************************************************************)
\* C2: a positional read linein(path, k) leaves the cursor value of every key
\* as it was, whatever its outcome.
C2_PositionalKeepsCursor ==
    [][ (call'.op = "linein" /\ call'.line_number # None)
        => \A verbose \in BOOLEAN : \A key \in Keys :
              CursorValue(file_positions'[verbose], key)
                 = CursorValue(file_positions[verbose], key) ]_vars

(***************************************************************************)
(* C3                                                                      *)
(***************************************************************************)
\* C3: two path strings that lead to the same file share one cursor: in every
\* state their cursor values are equal.
C3_SharedCursor ==
    \A verbose \in BOOLEAN : \A p \in Paths, q \in Paths :
       SameFile(files[verbose], absolute(p), absolute(q))
       => CursorValue(file_positions[verbose], KeyOf(p))
             = CursorValue(file_positions[verbose], KeyOf(q))

(***************************************************************************)
(* C4                                                                      *)
(***************************************************************************)
\* C4: a positional read with a line number below 1 on a readable file is
\* signalled as a usage error: an exception reaches the caller; the call
\* neither returns a value nor ends the process.
C4_BadLineNumberSignalled ==
    \A verbose \in BOOLEAN :
       (/\ IsPositional
        /\ TheInt(call.line_number) < 1
        /\ ReadableFile(files[verbose], call.file_path))
       => outcome[verbose].how = "raise"

(***************************************************************************)
(* C5                                                                      *)
(***************************************************************************)
\* the read linein(file_path, line_number) made in the current state runs off
\* the end of a readable file (line numbers below 1 are the matter of C4)
ReachesEof(verbose, file_path, line_number) ==
    /\ ReadableFile(files[verbose], file_path)
    /\ LET target == IF line_number = None
                     THEN CursorValue(file_positions[verbose], KeyOf(file_path)) + 1
                     ELSE TheInt(line_number)
       IN target >= 1 /\ target > NumLines(DataAt(files[verbose], file_path))

\* C5: a linein call that reaches end of file ends the process with status 0
\* when exit_on_eof=True, whatever exit_on_error and verbose are, and returns
\* END_OF_FILE when exit_on_eof=False.
C5_EofPolicy ==
    [][ \A verbose \in BOOLEAN :
          (call'.op = "linein" /\ ReachesEof(verbose, call'.file_path, call'.line_number))
          => IF call'.exit_on_eof
             THEN outcome'[verbose].how = "exit" /\ outcome'[verbose].val = RC0
             ELSE outcome'[verbose].how = "return" /\ outcome'[verbose].val = END_OF_FILE
      ]_vars

(***************************************************************************)
(* C6                                                                      *)
(***************************************************************************)
\* C6: with exit_on_error=False every call returns: none ends the process and
\* none lets an exception reach the caller.
C6_FailuresAreReturned ==
    ~exit_on_error
    => \A verbose \in BOOLEAN : outcome[verbose].how \in { "init", "return" }

(***************************************************************************)
(* C7                                                                      *)
(***************************************************************************)
\* the failures of the calls, told from the state before the call
LineinFails(verbose, file_path) == ~ReadableFile(files[verbose], file_path)
LineoutFails(verbose, file_path) ==
    ~open_for_write_ok(files[verbose], dirs,
                       Resolve(files[verbose], dirs, absolute(file_path)))
\* rm sees the path and its unlink fails
RmFails(verbose, file_path) ==
    /\ Stat(files[verbose], dirs, KeyOf(file_path)) \in { "file", "dir" }
    /\ ~unlink_ok(files[verbose], dirs, Resolve(files[verbose], dirs, KeyOf(file_path)).id)

\* C7: with exit_on_error=True, a linein on a path that is missing, is not a
\* regular file or cannot be read, a lineout whose file cannot be opened for
\* writing, and an rm whose unlink of an existing path fails, each end the
\* process with a non-zero exit status.
C7_FailuresTerminate ==
    [][ \A verbose \in BOOLEAN :
          (/\ exit_on_error
           /\ \/ call'.op = "linein" /\ LineinFails(verbose, call'.file_path)
              \/ call'.op = "lineout" /\ LineoutFails(verbose, call'.file_path)
              \/ call'.op = "rm" /\ RmFails(verbose, call'.file_path))
          => outcome'[verbose].how = "exit" /\ outcome'[verbose].val = RC1
      ]_vars

\* an rm of the file without permissions in the read-only directory has ended
\* the process with status 1
C7_Witness ==
    /\ exit_on_error
    /\ call.op = "rm"
    /\ call.file_path = << "ro", "r.txt" >>
    /\ Exited(TRUE, RC1) /\ Exited(FALSE, RC1)

(***************************************************************************)
(* C8                                                                      *)
(***************************************************************************)
\* C8: the object with verbose=TRUE and the object with verbose=FALSE, given
\* the same calls on the same file system, agree after every call on the
\* value returned, on whether and how the process ended, on the cursor table,
\* on next_record and on the file system; only the diagnostic may differ.
C8_VerboseOnlyPrints ==
    /\ outcome[TRUE].how = outcome[FALSE].how
    /\ outcome[TRUE].val = outcome[FALSE].val
    /\ file_positions[TRUE] = file_positions[FALSE]
    /\ next_record[TRUE] = next_record[FALSE]
    /\ files[TRUE] = files[FALSE]

\* a failed call: the verbose object printed a diagnostic, the other did not
C8_Witness ==
    /\ call.op = "linein"
    /\ outcome[TRUE].msg # NoMsg
    /\ outcome[FALSE].msg = NoMsg
    /\ ReturnedValue(TRUE, FILE_NOT_FOUND)
    /\ ReturnedValue(FALSE, FILE_NOT_FOUND)

(***************************************************************************)
(* C9                                                                      *)
(***************************************************************************)
\* C9: rm on a path that does not exist returns FILE_NOT_FOUND, changes no
\* file and does not end the process, whatever exit_on_error is; rm on an
\* existing file that can be removed returns 0 and the path no longer exists.
C9_RmContract ==
    [][ \A verbose \in BOOLEAN :
          call'.op = "rm"
          => LET st == Stat(files[verbose], dirs, KeyOf(call'.file_path))
                 id == Resolve(files[verbose], dirs, KeyOf(call'.file_path)).id
             IN /\ st \in { "ENOENT", "ENOTDIR" }
                   => /\ outcome'[verbose].how = "return"
                      /\ outcome'[verbose].val = FILE_NOT_FOUND
                      /\ files'[verbose] = files[verbose]
                /\ (st = "file" /\ unlink_ok(files[verbose], dirs, id))
                   => /\ outcome'[verbose].how = "return"
                      /\ outcome'[verbose].val = RC0
                      /\ Stat(files'[verbose], dirs, KeyOf(call'.file_path)) = "ENOENT"
      ]_vars

\* an rm of a missing path has returned FILE_NOT_FOUND under exit_on_error=True
C9_Witness ==
    /\ exit_on_error
    /\ call.op = "rm"
    /\ Stat(files[TRUE], dirs, KeyOf(call.file_path)) = "ENOENT"
    /\ ReturnedValue(TRUE, FILE_NOT_FOUND)

(***************************************************************************)
(* C10                                                                     *)
(***************************************************************************)
\* C10: right after a successful lineout(p, c, append=False) with c free of
\* newlines, the positional read linein(p, 1) returns exactly c, whatever the
\* cursor of p is and whatever the file held before.
C10_RoundTrip ==
    \A verbose \in BOOLEAN :
       (/\ call.op = "lineout"
        /\ ~call.append
        /\ NL \notin { call.string[i] : i \in 1..Len(call.string) }
        /\ ReturnedValue(verbose, RC0))
       => \A e \in BOOLEAN :
             LET R == linein(World(verbose), dirs, exit_on_error, verbose,
                             call.file_path, Some(1), e, TRUE)
             IN R.how = "return" /\ R.val = Str(call.string)

\* a file with a cursor beyond its first line has just been overwritten
C10_Witness ==
    /\ call.op = "lineout"
    /\ ~call.append
    /\ ReturnedValue(TRUE, RC0)
    /\ CursorValue(file_positions[TRUE], KeyOf(call.file_path)) = 2
    /\ DataAt(files[TRUE], call.file_path) = call.string \o << NL >>

C12_EofOnlyPastLastLine ==
    [][ \A verbose \in BOOLEAN :
          (/\ call'.op = "linein"
           /\ outcome'[verbose].how = "return"
           /\ outcome'[verbose].val = END_OF_FILE)
          => ReachesEof(verbose, call'.file_path, call'.line_number)
      ]_vars

(***************************************************************************)
(* C13                                                                     *)
(***************************************************************************)
\* C13: a read linein(path, k, exit_on_eof=False) that runs off the end of the
\* file returns END_OF_FILE; when it is positional the cursor value of the
\* file after the call is the value before it, when it is sequential the
\* cursor is 0 after the call.
C13_OnlySequentialEofResets ==
    [][ \A verbose \in BOOLEAN :
          (/\ call'.op = "linein"
           /\ ~call'.exit_on_eof
           /\ ReachesEof(verbose, call'.file_path, call'.line_number))
          => LET key == KeyOf(call'.file_path) IN
             /\ outcome'[verbose].how = "return"
             /\ outcome'[verbose].val = END_OF_FILE
             /\ IF call'.line_number = None
                THEN CursorValue(file_positions'[verbose], key) = 0
                ELSE CursorValue(file_positions'[verbose], key)
                        = CursorValue(file_positions[verbose], key)
      ]_vars

\* line 2 of a file of one line was asked for while its cursor was at 1: the
\* call returned END_OF_FILE and the cursor is still at 1
C13_Witness ==
    /\ IsPositional
    /\ ~call.exit_on_eof
    /\ TheInt(call.line_number) = 2
    /\ ReadableFile(files[TRUE], call.file_path)
    /\ NumLines(DataAt(files[TRUE], call.file_path)) = 1
    /\ ReturnedValue(TRUE, END_OF_FILE)
    /\ CursorValue(file_positions[TRUE], KeyOf(call.file_path)) = 1

(***************************************************************************)
(* C14                                                                     *)
(***************************************************************************)
\* the value returned is a line (neither a sentinel nor a return code)
ReturnedLine(o) == o.how = "return" /\ DOMAIN o.val = { "str" }

\* C14: whatever calls came before, a sequential linein that returns a line
\* returns line c+1 of the file and leaves the cursor at c+1, where c is the
\* cursor value before the call (0 when the file has no entry).
C14_SequentialAdvancesByOne ==
    [][ \A verbose \in BOOLEAN :
          (/\ call'.op = "linein"
           /\ call'.line_number = None
           /\ ReturnedLine(outcome'[verbose]))
          => LET key == KeyOf(call'.file_path)
                 c == CursorValue(file_positions[verbose], key)
             IN /\ key \in DOMAIN file_positions'[verbose]
                /\ file_positions'[verbose][key] = c + 1
                /\ outcome'[verbose].val
                      = Str(LineOf(DataAt(files[verbose], call'.file_path), c + 1))
      ]_vars

\* a sequential read made at cursor 1 outside a pass from the first line (the
\* pass was broken by another call on the file) has returned line 2 and left
\* the cursor at 2
C14_Witness ==
    /\ IsSequential
    /\ ReturnedLine(outcome[TRUE])
    /\ ~call.exit_on_eof
    /\ run[TRUE][KeyOf(call.file_path)] = 0
    /\ CursorValue(file_positions[TRUE], KeyOf(call.file_path)) = 2
    /\ outcome[TRUE].val = Str(LineOf(DataAt(files[TRUE], call.file_path), 2))

(***************************************************************************)
(* C15                                                                     *)
(***************************************************************************)
\* C15: a lineout or rm call, successful or failed, leaves the cursor table
\* as it was: the same keys with the same values.
C15_WritesKeepCursorTable ==
    [][ call'.op \in { "lineout", "rm" } => file_positions' = file_positions ]_vars

\* rm has deleted the file while its cursor was at 1; the entry is still there
C15_Witness ==
    /\ call.op = "rm"
    /\ ReturnedValue(TRUE, RC0)
    /\ KeyOf(call.file_path) \in DOMAIN file_positions[TRUE]
    /\ file_positions[TRUE][KeyOf(call.file_path)] = 1
    /\ Stat(files[TRUE], dirs, KeyOf(call.file_path)) = "ENOENT"

(***************************************************************************)
(* C16                                                                     *)
(***************************************************************************)
\* C16: a linein call on one file, sequential or positional and whatever its
\* outcome, leaves the entry of every other key of the cursor table as it
\* was (present or not, and its value); and the passes of sequential reads
\* over two files made in any interleaving are each the pass of C1: read j of
\* a file returns its line j, read N+1 returns END_OF_FILE with the cursor
\* back at 0, whatever reads of the other file came in between.
C16_FilesAreIndependent ==
    [][ call'.op = "linein"
        => /\ \A verbose \in BOOLEAN : \A key \in Keys \ { KeyOf(call'.file_path) } :
                 /\ key \in DOMAIN file_positions'[verbose]
                       <=> key \in DOMAIN file_positions[verbose]
                 /\ key \in DOMAIN file_positions[verbose]
                       => file_positions'[verbose][key] = file_positions[verbose][key]
           /\ C1_SequentialPass'
      ]_vars

\* the pass over g.txt (two lines) has ended with END_OF_FILE at its third
\* read, and line 1 of f.txt was read after line 2 of g.txt had been: the last
\* line found by the object is a line 1, and f.txt is one read into its pass
C16_Witness ==
    /\ IsSequential
    /\ call.file_path = << "g.txt" >>
    /\ run[TRUE][KeyOf(<< "g.txt" >>)] = 3
    /\ ReturnedValue(TRUE, END_OF_FILE)
    /\ run[TRUE][KeyOf(<< "f.txt" >>)] = 1
    /\ next_record[TRUE] = 1
    /\ file_positions[TRUE][KeyOf(<< "f.txt" >>)] = 1
    /\ file_positions[TRUE][KeyOf(<< "g.txt" >>)] = 0

(***************************************************************************)
(* C17                                                                     *)
(***************************************************************************)
\* C17: a sequential linein on a readable file made when the cursor of its
\* key is c answers from the contents the file has at that call and from c
\* alone: it returns line c+1 of those contents, and when they have at most c
\* lines it is at end of file (with exit_on_eof=False it returns END_OF_FILE),
\* whatever lineout and rm did to the file since the cursor got its value.
C17_OnlyLineNumberCarried ==
    [][ \A verbose \in BOOLEAN :
          (/\ call'.op = "linein"
           /\ call'.line_number = None
           /\ ReadableFile(files[verbose], call'.file_path))
          => LET c == CursorValue(file_positions[verbose], KeyOf(call'.file_path))
                 d == DataAt(files[verbose], call'.file_path)
             IN IF c + 1 <= NumLines(d)
                THEN /\ outcome'[verbose].how = "return"
                     /\ outcome'[verbose].val = Str(LineOf(d, c + 1))
                ELSE /\ outcome'[verbose].how \in { "return", "exit" }
                     /\ outcome'[verbose].how = "return"
                           => outcome'[verbose].val = END_OF_FILE
                     /\ ~call'.exit_on_eof => outcome'[verbose].how = "return"
      ]_vars

\* the file was cut down to one line after its line 2 had been read (the last
\* line the object found is a line 2): the sequential read made at the old
\* cursor has returned END_OF_FILE
C17_Witness ==
    /\ IsSequential
    /\ ~call.exit_on_eof
    /\ ReadableFile(files[TRUE], call.file_path)
    /\ NumLines(DataAt(files[TRUE], call.file_path)) = 1
    /\ next_record[TRUE] = 2
    /\ ReturnedValue(TRUE, END_OF_FILE)

(***************************************************************************)
(* C18                                                                     *)
(***************************************************************************)
\* C18: nothing keeps two threads from interleaving the statements of their
\* sequential linein calls on one file: a call returns the line whose number
\* is one more than the cursor value it read and sets the cursor to that
\* number.  So whenever two calls that have read the same cursor value have
\* both returned a line, they have returned the same line and the cursor is
\* at that line's number: one beyond the value read, not two.
C18_RaceLosesAdvance ==
    \A t \in Threads : \A u \in Threads \ { t } :
       (/\ threads[t].pc = "done" /\ threads[u].pc = "done"
        /\ DOMAIN threads[t].val = { "str" } /\ DOMAIN threads[u].val = { "str" }
        /\ threads[t].target = threads[u].target)
       => /\ threads[t].val = threads[u].val
          /\ threads[t].val
                = Str(LineOf(DataAt(files[Shared], ThreadPath), threads[t].target))
          /\ file_positions[Shared][ThreadKey] = threads[t].target

\* both threads read the cursor at 0 and returned line 1; the second to write
\* the cursor found it already moved by the first and set it to 1 again
C18_Witness ==
    /\ \A t \in Threads :
          /\ threads[t].pc = "done"
          /\ threads[t].target = 1
          /\ threads[t].val = Str(LineOf(DataAt(files[Shared], ThreadPath), 1))
    /\ \E t \in Threads : threads[t].lost
    /\ NumLines(DataAt(files[Shared], ThreadPath)) = 2
    /\ file_positions[Shared][ThreadKey] = 1

(***************************************************************************)
(* C19                                                                     *)
(***************************************************************************)
\* the characters of s at the 1-based positions first..last that exist
CharsAt(s, first, last) ==
    LET n == Cardinality({ i \in first..last : i >= 1 /\ i <= Len(s) })
    IN [i \in 1..n |-> s[first + i - 1]]

\* C19: substr(s, start, length) with start >= 1 and length >= 0 returns the
\* characters of s at the positions start .. start+length-1 that exist (none
\* when length is 0 or start is beyond the end of s); with length omitted it
\* returns the characters from start to the end of s; with start < 1 it
\* raises an error.
C19_SubstrContract ==
    strop.fn = "substr"
    => IF strop.start < 1
       THEN strop.how = "raise"
       ELSE /\ strop.how = "return"
            /\ strop.val
                  = Str(IF strop.length = None
                        THEN CharsAt(strop.string, strop.start, Len(strop.string))
                        ELSE CharsAt(strop.string, strop.start,
                                     strop.start + TheInt(strop.length) - 1))

(***************************************************************************)
(* C20                                                                     *)
(***************************************************************************)
\* n copies of the pad character
Padding(pad, n) == [i \in 1..n |-> pad]

\* C20: left(s, length, pad) and right(s, length, pad) with length >= 0 return
\* a string of exactly length characters: left the first length characters of
\* s, or s followed by padding; right the last length characters of s, or s
\* preceded by padding.
C20_LeftRightExactLength ==
    strop.fn \in { "left", "right" }
    => LET s == strop.string
           n == TheInt(strop.length)
       IN /\ strop.how = "return"
          /\ Len(strop.val.str) = n
          /\ strop.val
                = Str(IF strop.fn = "left"
                      THEN IF Len(s) >= n THEN CharsAt(s, 1, n)
                           ELSE s \o Padding(strop.pad, n - Len(s))
                      ELSE IF Len(s) >= n THEN CharsAt(s, Len(s) - n + 1, Len(s))
                           ELSE Padding(strop.pad, n - Len(s)) \o s)

====
